---- MODULE Spec2Model ----
(***************************************************************************)
(* Model of HighLevelAnalyzer.py: the Spi4or8ByCsHla high level analyzer.  *)
(* One decoder session consumes a stream of input frames (enable, disable, *)
(* result, anything else) and returns, per decode call, nothing, one       *)
(* frame, or a list of frames.  Times are exact rationals [n, d], standing *)
(* for SaleaeTime values and the products of a SaleaeTimeDelta by a float. *)
(***************************************************************************)
EXTENDS Integers, Sequences, FiniteSets, TLC

\* ---------------------------------------------------------------- bounds
MaxTime == 4
MaxDur == 2
MaxNibbles == 3

\* cs_start = None
None == -1

\* The decoder's fields; frame is the argument of the last decode call and
\* out what it returned; now is the end time of the last input frame;
\* The rest records what the decoder was given since the last disable
\* frame: rx_mosi and rx_miso the values received on each wire, as tuples
\* <<value, start_time, end_time>> of the unmasked value and the span of
\* its frame; first_frame the type and start time of the first enable or
\* result frame; enable_seen whether an enable frame was among them, and
\* last_enable the last of these enable frames.  emitted counts the
\* nibble_ok, byte_ok and error frames returned since construction, the
\* error frames also by diagnostic.
VARIABLES cs_active, cs_start, mosi_nibbles, miso_nibbles, stats,
          emit_stats_choice, frame, out, now,
          rx_mosi, rx_miso, first_frame, enable_seen, last_enable, emitted

vars == <<cs_active, cs_start, mosi_nibbles, miso_nibbles, stats,
          emit_stats_choice, frame, out, now,
          rx_mosi, rx_miso, first_frame, enable_seen, last_enable, emitted>>

received == <<rx_mosi, rx_miso, first_frame, enable_seen, last_enable>>

\* ------------------------------------------------------------ time values
\* A time n/d (d > 0).
T(n, d) == [n |-> n, d |-> d]

TLt(x, y) == x.n * y.d < y.n * x.d

TLe(x, y) == x.n * y.d <= y.n * x.d

TEq(x, y) == x.n * y.d = y.n * x.d

\* ------------------------------------------------------------- settings
Choices == {"False", "True"}

Lower(s) == CASE s = "False" -> "false"
              [] s = "True" -> "true"
              [] OTHER -> s

as_bool(choice) == Lower(choice) \in {"true", "yes", "on", "1"}

\* ---------------------------------------------------------------- state
InitStats ==
  [Packets |-> [total |-> 0, p4bit |-> 0, p8bit |-> 0],
   Errors  |-> [total |-> 0, lt4 |-> 0, notmul8 |-> 0, mosi_odd |-> 0, miso_odd |-> 0]]

\* The cycle fields of the decoder as one record.
CsState(active, start, mosi, miso) ==
  [cs_active |-> active, cs_start |-> start, mosi_nibbles |-> mosi, miso_nibbles |-> miso]

\* Variant: the MOSI list is not cleared.
reset_cs_state_keeps_mosi(self) ==
  [self EXCEPT !.cs_active = FALSE, !.cs_start = None, !.miso_nibbles = <<>>]

\* _reset_cs_state: the cycle fields after the call.
reset_cs_state(self) ==
  [self EXCEPT !.cs_active = FALSE, !.cs_start = None,
               !.mosi_nibbles = <<>>, !.miso_nibbles = <<>>]

\* The cycle fields __init__ leaves.
InitCs == reset_cs_state(CsState(FALSE, None, <<>>, <<>>))

NoFrame == [type |-> "none"]

ReturnNone == [kind |-> "None"]

Init ==
  /\ cs_active = InitCs.cs_active
  /\ cs_start = InitCs.cs_start
  /\ mosi_nibbles = InitCs.mosi_nibbles
  /\ miso_nibbles = InitCs.miso_nibbles
  /\ stats = InitStats
  /\ \E c \in Choices : emit_stats_choice = as_bool(c)
  /\ frame = NoFrame
  /\ out = ReturnNone
  /\ now = 0
  /\ rx_mosi = <<>>
  /\ rx_miso = <<>>
  /\ first_frame = NoFrame
  /\ enable_seen = FALSE
  /\ last_enable = NoFrame
  /\ emitted = InitStats

\* ------------------------------------------------- rational arithmetic
RECURSIVE GCD(_, _)
GCD(a, b) == IF b = 0 THEN a ELSE GCD(b, a % b)

Abs(a) == IF a < 0 THEN -a ELSE a

Norm(x) == LET g == GCD(Abs(x.n), x.d) IN T(x.n \div g, x.d \div g)

TAdd(x, y) == Norm(T(x.n * y.d + y.n * x.d, x.d * y.d))

TSub(x, y) == Norm(T(x.n * y.d - y.n * x.d, x.d * y.d))

TMul(x, y) == Norm(T(x.n * y.n, x.d * y.d))

\* x / float(k), k a positive integer
TDivInt(x, k) == Norm(T(x.n, x.d * k))

\* ---------------------------------------------------------- formatting
HexDigit == <<"0", "1", "2", "3", "4", "5", "6", "7",
              "8", "9", "A", "B", "C", "D", "E", "F">>

\* '0x%02X' % (val & 0xFF)
FormatByte(val) ==
  LET v == val % 256 IN "0x" \o HexDigit[(v \div 16) + 1] \o HexDigit[(v % 16) + 1]

\* '0x%X' % (val & 0xF)
FormatNibble(val) == "0x" \o HexDigit[(val % 16) + 1]

\* ------------------------------------------------------------ internals
\* Variant: the nibbles merged low then high.
merge_pair_low_then_high(a, b) == ((b % 16) * 16) + (a % 16)

\* ((a & 0xF) << 4) | (b & 0xF), the 'high_then_low' branch that __init__
\* selects.
merge_pair(a, b) == ((a % 16) * 16) + (b % 16)

\* stats['Packets']['Total packets'] += 1 and the counter of the kind
count_packet(st, kind) ==
  [st EXCEPT !.Packets.total = @ + 1,
             !.Packets.p4bit = IF kind = "nibble_ok" THEN @ + 1 ELSE @,
             !.Packets.p8bit = IF kind = "byte_ok" THEN @ + 1 ELSE @]

\* Variant: the category is counted, the total is not.
count_error_no_total(st, cat) ==
  [st EXCEPT !.Errors.lt4 = IF cat = "lt4" THEN @ + 1 ELSE @,
             !.Errors.notmul8 = IF cat = "notmul8" THEN @ + 1 ELSE @,
             !.Errors.mosi_odd = IF cat = "mosi_odd" THEN @ + 1 ELSE @,
             !.Errors.miso_odd = IF cat = "miso_odd" THEN @ + 1 ELSE @]

\* stats['Errors']['Total errors'] += 1 and the counter of the category
count_error(st, cat) ==
  [st EXCEPT !.Errors.total = @ + 1,
             !.Errors.lt4 = IF cat = "lt4" THEN @ + 1 ELSE @,
             !.Errors.notmul8 = IF cat = "notmul8" THEN @ + 1 ELSE @,
             !.Errors.mosi_odd = IF cat = "mosi_odd" THEN @ + 1 ELSE @,
             !.Errors.miso_odd = IF cat = "miso_odd" THEN @ + 1 ELSE @]

\* A nibble is a tuple <<val, start_time, end_time>>.
nibble_item(dir_label, nib) ==
  [dir |-> dir_label, kind |-> "nibble_ok", val |-> nib[1], key_time |-> nib[2]]

byte_item(dir_label, n1, n2) ==
  [dir |-> dir_label, kind |-> "byte_ok", val |-> merge_pair(n1[1], n2[1]),
   key_time |-> n1[2]]

\* Variant: the loop without the leftover nibble.
RECURSIVE pair_loop_no_leftover(_, _, _, _)
pair_loop_no_leftover(dir_label, nibbles, i, acc) ==
  IF i + 1 < Len(nibbles)
    THEN pair_loop_no_leftover(dir_label, nibbles, i + 2,
           [items |-> Append(acc.items, byte_item(dir_label, nibbles[i + 1], nibbles[i + 2])),
            stats |-> count_packet(acc.stats, "byte_ok")])
    ELSE acc

\* The while loop of _build_items_for_dir from index i (0-based) on,
\* followed by the leftover nibble; acc = [items, stats].
RECURSIVE pair_loop(_, _, _, _)
pair_loop(dir_label, nibbles, i, acc) ==
  LET n == Len(nibbles) IN
  IF i + 1 < n
    THEN pair_loop(dir_label, nibbles, i + 2,
           [items |-> Append(acc.items, byte_item(dir_label, nibbles[i + 1], nibbles[i + 2])),
            stats |-> count_packet(acc.stats, "byte_ok")])
    ELSE IF i < n
      THEN [items |-> Append(acc.items, nibble_item(dir_label, nibbles[i + 1])),
            stats |-> count_packet(acc.stats, "nibble_ok")]
      ELSE acc

\* _build_items_for_dir: returns the items and the updated statistics.
build_items_for_dir(dir_label, nibbles, st) ==
  LET n == Len(nibbles) IN
  IF n = 0 THEN [items |-> <<>>, stats |-> st]
  ELSE IF n = 1
    THEN [items |-> <<nibble_item(dir_label, nibbles[1])>>,
          stats |-> count_packet(st, "nibble_ok")]
    ELSE pair_loop(dir_label, nibbles, 0, [items |-> <<>>, stats |-> st])

Max(a, b) == IF a >= b THEN a ELSE b

error_item(dir_label, key, msg) ==
  [dir |-> dir_label, kind |-> "error", val |-> None, key_time |-> key, msg |-> msg]

\* Variant: the clocks rule without the exception for 4 clocks.
clock_errors_no_exception(nm, ni, key, st) ==
  LET total_nibbles_est == Max(nm, ni)
      total_bits_est == total_nibbles_est * 4
  IN IF total_nibbles_est = 0
       THEN [items |-> <<error_item("BUS", key, "Less than 4 clocks")>>,
             stats |-> count_error(st, "lt4")]
       ELSE IF ~(total_bits_est % 8 = 0)
         THEN [items |-> <<error_item("BUS", key,
                 "Clocks = " \o ToString(total_bits_est) \o " (not multiple of 8 and != 4)")>>,
               stats |-> count_error(st, "notmul8")]
         ELSE [items |-> <<>>, stats |-> st]

\* First if/else of _build_error_items: the clocks rules.
clock_errors(nm, ni, key, st) ==
  LET total_nibbles_est == Max(nm, ni)
      total_bits_est == total_nibbles_est * 4
  IN IF total_nibbles_est = 0
       THEN [items |-> <<error_item("BUS", key, "Less than 4 clocks")>>,
             stats |-> count_error(st, "lt4")]
       ELSE IF ~(total_bits_est = 4 \/ total_bits_est % 8 = 0)
         THEN [items |-> <<error_item("BUS", key,
                 "Clocks = " \o ToString(total_bits_est) \o " (not multiple of 8 and != 4)")>>,
               stats |-> count_error(st, "notmul8")]
         ELSE [items |-> <<>>, stats |-> st]

\* Variant: the odd rule without the > 1 test.
odd_error_any_odd(dir_label, cat, cnt, key, acc) ==
  IF cnt % 2 = 1
    THEN [items |-> Append(acc.items, error_item(dir_label, key,
            dir_label \o " nibble count = " \o ToString(cnt) \o " (odd > 1)")),
          stats |-> count_error(acc.stats, cat)]
    ELSE acc

\* The odd (>1) rule of one direction.
odd_error(dir_label, cat, cnt, key, acc) ==
  IF cnt > 1 /\ cnt % 2 = 1
    THEN [items |-> Append(acc.items, error_item(dir_label, key,
            dir_label \o " nibble count = " \o ToString(cnt) \o " (odd > 1)")),
          stats |-> count_error(acc.stats, cat)]
    ELSE acc

\* _build_error_items(cs_start, end_time) on the given nibble lists.
build_error_items(key, mosi, miso, st) ==
  LET nm == Len(mosi)
      ni == Len(miso)
      a == clock_errors(nm, ni, key, st)
      b == odd_error("MOSI", "mosi_odd", nm, key, a)
  IN odd_error("MISO", "miso_odd", ni, key, b)

\* Variant: an item goes before the items of equal key (not stable).
RECURSIVE insert_before_equal(_, _)
insert_before_equal(sorted, it) ==
  IF sorted = <<>> THEN <<it>>
  ELSE IF sorted[Len(sorted)].key_time < it.key_time
    THEN Append(sorted, it)
    ELSE Append(insert_before_equal(SubSeq(sorted, 1, Len(sorted) - 1), it),
                sorted[Len(sorted)])

\* items.sort(key=lambda it: it['key_time']): a stable sort.  Insert puts
\* an item behind every item of the sorted prefix whose key is <= its own.
RECURSIVE insert_by_key(_, _)
insert_by_key(sorted, it) ==
  IF sorted = <<>> THEN <<it>>
  ELSE IF sorted[Len(sorted)].key_time <= it.key_time
    THEN Append(sorted, it)
    ELSE Append(insert_by_key(SubSeq(sorted, 1, Len(sorted) - 1), it), sorted[Len(sorted)])

RECURSIVE sort_by_key_time(_)
sort_by_key_time(items) ==
  IF items = <<>> THEN <<>>
  ELSE insert_by_key(sort_by_key_time(SubSeq(items, 1, Len(items) - 1)), items[Len(items)])

\* Comparing None with a time (or with None) raises TypeError; a sort of
\* two or more items compares keys.
sort_raises(items) ==
  Len(items) > 1 /\ \E i \in 1..Len(items) : items[i].key_time = None

AnalyzerFrame(type, begin, finish, data) ==
  [type |-> type, start_time |-> begin, end_time |-> finish, data |-> data]

packets_message(st) ==
  "Total packets: " \o ToString(st.Packets.total)
    \o "; 4bit packets: " \o ToString(st.Packets.p4bit)
    \o "; 8bit packets: " \o ToString(st.Packets.p8bit)

errors_message(st) ==
  "Total errors: " \o ToString(st.Errors.total)
    \o "; Less than 4 clocks: " \o ToString(st.Errors.lt4)
    \o "; Clocks not multiple of 8 and != 4: " \o ToString(st.Errors.notmul8)
    \o "; MOSI nibble count (odd > 1): " \o ToString(st.Errors.mosi_odd)
    \o "; MISO nibble count (odd > 1): " \o ToString(st.Errors.miso_odd)

\* Variant: only the packets summary is generated.
generate_only_packets(begin, step, st) ==
  << AnalyzerFrame("stats", begin, TAdd(begin, TMul(step, T(3, 10))),
                   [info |-> "packets", msg |-> packets_message(st)]) >>

\* generate(begin, step)
generate(begin, step, st) ==
  LET s1 == begin
      s2 == TAdd(begin, TMul(step, T(3, 10)))
      s3 == TAdd(begin, TMul(step, T(6, 10)))
      s4 == TAdd(begin, TMul(step, T(9, 10)))
  IN << AnalyzerFrame("stats", s1, s2, [info |-> "packets", msg |-> packets_message(st)]),
        AnalyzerFrame("stats", s3, s4, [info |-> "errors", msg |-> errors_message(st)]) >>

\* Variant: the items enumerated from 0.
item_begin_from_zero(start, step, i) == TAdd(T(start, 1), TMul(step, T(i - 1, 1)))

\* begin of the i-th item (1-based)
item_begin(start, step, i) == TAdd(T(start, 1), TMul(step, T(i, 1)))

\* Variant: an item fills its whole slot.
item_finish_whole_slot(begin, step, end_time) ==
  LET finish == TAdd(begin, step)
  IN IF TLt(T(end_time, 1), finish) THEN T(end_time, 1) ELSE finish

\* finish of an item that begins at begin, clamped to end_time
item_finish(begin, step, end_time) ==
  LET finish == TAdd(begin, TMul(step, T(9, 10)))
  IN IF TLt(T(end_time, 1), finish) THEN T(end_time, 1) ELSE finish

\* The frame the loop of _flush_cs appends for item it.
item_frame(it, begin, finish) ==
  IF it.kind = "byte_ok"
    THEN AnalyzerFrame("byte_ok", begin, finish, [dir |-> it.dir, val |-> FormatByte(it.val)])
  ELSE IF it.kind = "nibble_ok"
    THEN AnalyzerFrame("nibble_ok", begin, finish, [dir |-> it.dir, val |-> FormatNibble(it.val)])
    ELSE AnalyzerFrame("error", begin, finish, [msg |-> it.msg])

\* _flush_cs(end_time) on the state (start, mosi, miso, st, emit): whether
\* it raises, the frames it returns and the statistics it leaves.  The
\* accumulator is reset in every case (line 174 precedes every raise).
flush_cs(end_time, start, mosi, miso, st, emit) ==
  LET errs == build_error_items(start, mosi, miso, st)
      mo == build_items_for_dir("MOSI", mosi, errs.stats)
      mi == build_items_for_dir("MISO", miso, mo.stats)
      unsorted == errs.items \o mo.items \o mi.items
      st2 == mi.stats
  IN IF unsorted = <<>> THEN [raised |-> FALSE, frames |-> <<>>, stats |-> st2]
     ELSE IF sort_raises(unsorted) \/ start = None
       THEN [raised |-> TRUE, frames |-> <<>>, stats |-> st2]
       ELSE
         LET items == sort_by_key_time(unsorted)
             total == Len(items)
             span == TSub(T(end_time, 1), T(start, 1))
             step == TDivInt(span, total + 2)
             data == [i \in 1..total |->
                        item_frame(items[i], item_begin(start, step, i),
                                   item_finish(item_begin(start, step, i), step, end_time))]
             finish == data[total].end_time
         IN [raised |-> FALSE,
             frames |-> IF emit THEN data \o generate(finish, step, st2) ELSE data,
             stats |-> st2]

\* ------------------------------------------------------------- HLA API
\* The span of the next input frame: frames arrive in time order, each
\* with a positive duration.  A frame begins where the one before it ended;
\* a gap between two frames is the span of an ignored frame (DecodeOther).
InputTimes == {<<s, e>> \in (0..MaxTime) \X (0..MaxTime) :
                 s = now /\ s < e /\ e <= s + MaxDur}

\* frame.data.get('mosi'): a sequence of values, or not a sequence (None).
\* 26 and -13 are out of the 4-bit range (26 & 0xF = 10, -13 & 0xF = 3).
Payloads == {[isseq |-> FALSE, vals |-> <<>>],
             [isseq |-> TRUE, vals |-> <<>>],
             [isseq |-> TRUE, vals |-> <<-13>>],
             [isseq |-> TRUE, vals |-> <<26, 3>>]}

OtherTypes == {"error"}

\* Variant: the values are stored unmasked.
RECURSIVE append_nibbles_unmasked(_, _, _, _)
append_nibbles_unmasked(nibbles, vals, s, e) ==
  IF vals = <<>> THEN nibbles
  ELSE append_nibbles_unmasked(Append(nibbles, <<Head(vals), s, e>>), Tail(vals), s, e)

\* for n in mosi: self.mosi_nibbles.append((int(n) & 0xF, start, end))
RECURSIVE append_nibbles(_, _, _, _)
append_nibbles(nibbles, vals, s, e) ==
  IF vals = <<>> THEN nibbles
  ELSE append_nibbles(Append(nibbles, <<Head(vals) % 16, s, e>>), Tail(vals), s, e)

\* Variant: the values of a frame replace the list.
accumulate_replaces(nibbles, payload, s, e) ==
  IF payload.isseq THEN append_nibbles(<<>>, payload.vals, s, e) ELSE nibbles

accumulate(nibbles, payload, s, e) ==
  IF payload.isseq THEN append_nibbles(nibbles, payload.vals, s, e) ELSE nibbles

\* The record of the input: the first frame since the last disable frame,
\* and the values a result frame carries on one wire.
FirstFrame(type, s) ==
  IF first_frame = NoFrame THEN [type |-> type, start_time |-> s] ELSE first_frame

Received(payload, s, e) ==
  IF payload.isseq THEN [i \in 1..Len(payload.vals) |-> <<payload.vals[i], s, e>>] ELSE <<>>

\* The count of returned frames: em with the frames fs added, each under
\* its type and, for an error frame, under the diagnostic of its message.
NumberOfType(fs, ty) == Cardinality({i \in 1..Len(fs) : fs[i].type = ty})

NumberOfError(fs, msgs) ==
  Cardinality({i \in 1..Len(fs) : fs[i].type = "error" /\ fs[i].data.msg \in msgs})

CountEmitted(em, fs) ==
  LET nib == NumberOfType(fs, "nibble_ok")
      byt == NumberOfType(fs, "byte_ok")
      err == NumberOfType(fs, "error")
      lt4 == NumberOfError(fs, {"Less than 4 clocks"})
      mosi == NumberOfError(fs,
                {"MOSI nibble count = " \o ToString(c) \o " (odd > 1)" : c \in 0..16})
      miso == NumberOfError(fs,
                {"MISO nibble count = " \o ToString(c) \o " (odd > 1)" : c \in 0..16})
  IN [Packets |-> [total |-> em.Packets.total + nib + byt,
                   p4bit |-> em.Packets.p4bit + nib,
                   p8bit |-> em.Packets.p8bit + byt],
      Errors |-> [total |-> em.Errors.total + err,
                  lt4 |-> em.Errors.lt4 + lt4,
                  notmul8 |-> em.Errors.notmul8 + (err - lt4 - mosi - miso),
                  mosi_odd |-> em.Errors.mosi_odd + mosi,
                  miso_odd |-> em.Errors.miso_odd + miso]]

\* Variant: a result frame never records a start.
result_cs_start_unset(active, start, frame_start) == start

\* if not self.cs_active: self.cs_active = True; self.cs_start = start
result_cs_start(active, start, frame_start) ==
  IF ~active THEN frame_start ELSE start

DecodeEnable ==
  \E t \in InputTimes :
    /\ frame' = [type |-> "enable", start_time |-> t[1], end_time |-> t[2]]
    /\ first_frame' = FirstFrame("enable", t[1])
    /\ enable_seen' = TRUE
    /\ last_enable' = frame'
    /\ UNCHANGED emitted
    /\ UNCHANGED <<rx_mosi, rx_miso>>
    /\ now' = t[2]
    /\ cs_active' = TRUE
    /\ cs_start' = t[1]
    /\ out' = [kind |-> "frame",
               frame |-> AnalyzerFrame("packet", T(t[1], 1), T(t[2], 1),
                                       [dir |-> "CS", info |-> "enable"])]
    /\ UNCHANGED <<mosi_nibbles, miso_nibbles, stats, emit_stats_choice>>

DecodeDisable ==
  \E t \in InputTimes :
    LET r == flush_cs(t[2], cs_start, mosi_nibbles, miso_nibbles, stats, emit_stats_choice)
        cs == reset_cs_state(CsState(cs_active, cs_start, mosi_nibbles, miso_nibbles))
    IN /\ frame' = [type |-> "disable", start_time |-> t[1], end_time |-> t[2]]
       /\ rx_mosi' = <<>>
       /\ rx_miso' = <<>>
       /\ first_frame' = NoFrame
       /\ enable_seen' = FALSE
       /\ last_enable' = NoFrame
       /\ emitted' = CountEmitted(emitted, IF r.raised THEN <<>> ELSE r.frames)
       /\ now' = t[2]
       /\ cs_active' = cs.cs_active
       /\ cs_start' = cs.cs_start
       /\ mosi_nibbles' = cs.mosi_nibbles
       /\ miso_nibbles' = cs.miso_nibbles
       /\ stats' = r.stats
       /\ out' = IF r.raised
                   THEN [kind |-> "raise"]
                   ELSE [kind |-> "list",
                         frames |-> Append(r.frames,
                            AnalyzerFrame("packet", T(t[1], 1), T(t[2], 1),
                                          [dir |-> "CS", info |-> "disable"]))]
       /\ UNCHANGED emit_stats_choice

DecodeResult ==
  \E t \in InputTimes, mosi \in Payloads, miso \in Payloads :
    /\ Len(mosi_nibbles) + Len(mosi.vals) <= MaxNibbles
    /\ Len(miso_nibbles) + Len(miso.vals) <= MaxNibbles
    /\ frame' = [type |-> "result", start_time |-> t[1], end_time |-> t[2],
                 data |-> [mosi |-> mosi, miso |-> miso]]
    /\ first_frame' = FirstFrame("result", t[1])
    /\ rx_mosi' = rx_mosi \o Received(mosi, t[1], t[2])
    /\ rx_miso' = rx_miso \o Received(miso, t[1], t[2])
    /\ UNCHANGED <<enable_seen, last_enable, emitted>>
    /\ now' = t[2]
    /\ cs_active' = TRUE
    /\ cs_start' = result_cs_start(cs_active, cs_start, t[1])
    /\ mosi_nibbles' = accumulate(mosi_nibbles, mosi, t[1], t[2])
    /\ miso_nibbles' = accumulate(miso_nibbles, miso, t[1], t[2])
    /\ out' = ReturnNone
    /\ UNCHANGED <<stats, emit_stats_choice>>

\* Variant: a frame of another type closes the cycle.
DecodeOther_deactivates ==
  \E t \in InputTimes, ty \in OtherTypes :
    /\ frame' = [type |-> ty, start_time |-> t[1], end_time |-> t[2]]
    /\ now' = t[2]
    /\ out' = ReturnNone
    /\ cs_active' = FALSE
    /\ UNCHANGED <<cs_start, mosi_nibbles, miso_nibbles, stats,
                   emit_stats_choice, received, emitted>>

DecodeOther ==
  \E t \in InputTimes, ty \in OtherTypes :
    /\ frame' = [type |-> ty, start_time |-> t[1], end_time |-> t[2]]
    /\ now' = t[2]
    /\ out' = ReturnNone
    /\ UNCHANGED <<cs_active, cs_start, mosi_nibbles, miso_nibbles, stats,
                   emit_stats_choice, received, emitted>>

Next == DecodeEnable \/ DecodeDisable \/ DecodeResult \/ DecodeOther

Spec == Init /\ [][Next]_vars

TypeOK ==
  /\ cs_active \in BOOLEAN
  /\ cs_start \in {None} \cup (0..MaxTime)
  /\ emit_stats_choice \in BOOLEAN
  /\ now \in 0..MaxTime
  /\ out.kind \in {"None", "frame", "list", "raise"}

\* ------------------------------------------------------------ properties
\* The frames a returned list holds before its last element.
Flushed(o) == SubSeq(o.frames, 1, Len(o.frames) - 1)

ReturnedFrames(o) == IF o.kind = "list" THEN o.frames ELSE <<>>

Dirs == {"MOSI", "MISO"}

NibblesOf(d) == IF d = "MOSI" THEN mosi_nibbles ELSE miso_nibbles

IsKindOf(f, type, d) == f.type = type /\ f.data.dir = d

CountFrames(fs, type, d) == Cardinality({i \in 1..Len(fs) : IsKindOf(fs[i], type, d)})

BytesOf(fs, d) == SelectSeq(fs, LAMBDA f : IsKindOf(f, "byte_ok", d))

TrailingOf(fs, d) == SelectSeq(fs, LAMBDA f : IsKindOf(f, "nibble_ok", d))

ErrorMsgs(fs) == {fs[i].data.msg : i \in {j \in 1..Len(fs) : fs[j].type = "error"}}

ClockMsg(bits) == "Clocks = " \o ToString(bits) \o " (not multiple of 8 and != 4)"

ClockMsgs == {ClockMsg(b) : b \in 0..64}

OddMsg(d, c) == d \o " nibble count = " \o ToString(c) \o " (odd > 1)"

OddMsgs(d) == {OddMsg(d, c) : c \in 0..16}

\* C1: for every disable frame whose end time is later than the recorded
\* cs_start, the call returns a list whose frames before the disable marker
\* (error, data and stats frames) number at least one, each begin before it
\* ends, lie strictly inside the open window (cs_start, end time of the
\* disable frame), and follow one another with strictly increasing begin
\* times and without overlap (the end of one is <= the begin of the next).
C1_FlushSpansOrderedInWindow ==
  [][ (frame'.type = "disable" /\ cs_start # None /\ frame'.end_time > cs_start) =>
        /\ out'.kind = "list"
        /\ LET fs == Flushed(out')
               lo == T(cs_start, 1)
               hi == T(frame'.end_time, 1)
           IN /\ Len(fs) >= 1
              /\ \A i \in 1..Len(fs) :
                   /\ TLt(fs[i].start_time, fs[i].end_time)
                   /\ TLt(lo, fs[i].start_time)
                   /\ TLt(fs[i].end_time, hi)
              /\ \A i \in 1..(Len(fs) - 1) :
                   /\ TLt(fs[i].start_time, fs[i + 1].start_time)
                   /\ TLe(fs[i].end_time, fs[i + 1].start_time) ]_vars

\* A flush that returned errors, data and the two stats frames.
C1_Witness ==
  /\ frame.type = "disable" /\ out.kind = "list" /\ emit_stats_choice
  /\ Len(out.frames) >= 7
  /\ \E i \in 1..Len(out.frames) : out.frames[i].type = "stats"
  /\ \E i \in 1..Len(out.frames) : out.frames[i].type = "byte_ok"

\* C2: a disable frame that finds c nibbles accumulated for a direction
\* returns exactly c \div 2 byte_ok frames and exactly c % 2 nibble_ok
\* frames of that direction (none of either when c = 0).
C2_ItemCounts ==
  [][ frame'.type = "disable" =>
        \A d \in Dirs :
          LET c == Len(NibblesOf(d))
              fs == ReturnedFrames(out')
          IN /\ CountFrames(fs, "byte_ok", d) = c \div 2
             /\ CountFrames(fs, "nibble_ok", d) = c % 2 ]_vars

\* A flush of three MOSI nibbles and two MISO nibbles.
C2_Witness ==
  /\ frame.type = "disable" /\ out.kind = "list"
  /\ CountFrames(out.frames, "byte_ok", "MOSI") = 1
  /\ CountFrames(out.frames, "nibble_ok", "MOSI") = 1
  /\ CountFrames(out.frames, "byte_ok", "MISO") = 1
  /\ CountFrames(out.frames, "nibble_ok", "MISO") = 0

\* C3: in the list a disable frame returns, the k-th byte_ok frame of a
\* direction (k = 0, 1, ...) shows the value 16 * S[2k] + S[2k+1] of that
\* direction's accumulated nibbles S (0-based), the earlier nibble in the
\* high four bits, and a nibble_ok frame shows the value of the last nibble.
C3_PairingFromFront ==
  [][ (frame'.type = "disable" /\ out'.kind = "list") =>
        \A d \in Dirs :
          LET S == NibblesOf(d)
              bs == BytesOf(out'.frames, d)
              ns == TrailingOf(out'.frames, d)
          IN /\ 2 * Len(bs) <= Len(S)
             /\ \A k \in 1..Len(bs) :
                  bs[k].data.val = FormatByte(16 * S[2 * k - 1][1] + S[2 * k][1])
             /\ \A j \in 1..Len(ns) :
                  Len(S) >= 1 /\ ns[j].data.val = FormatNibble(S[Len(S)][1]) ]_vars

\* A flush that paired the nibbles 0xA, 0x3 into 0xA3 and left a trailing 3.
C3_Witness ==
  /\ frame.type = "disable" /\ out.kind = "list"
  /\ \E i \in 1..Len(out.frames) :
       IsKindOf(out.frames[i], "byte_ok", "MOSI") /\ out.frames[i].data.val = "0xA3"
  /\ \E i \in 1..Len(out.frames) :
       IsKindOf(out.frames[i], "nibble_ok", "MOSI") /\ out.frames[i].data.val = "0x3"

C5_OddDiagnostics ==
  [][ frame'.type = "disable" =>
        LET msgs == ErrorMsgs(ReturnedFrames(out'))
        IN \A d \in Dirs :
             LET c == Len(NibblesOf(d))
                 odd == c > 1 /\ c % 2 = 1
             IN /\ (msgs \cap OddMsgs(d) # {}) <=> odd
                /\ msgs \cap OddMsgs(d) \subseteq {OddMsg(d, c)} ]_vars

\* A flush where the MOSI odd diagnostic fired together with the clocks
\* diagnostic while the MISO one did not.
C5_Witness ==
  /\ frame.type = "disable" /\ out.kind = "list"
  /\ OddMsg("MOSI", 3) \in ErrorMsgs(out.frames)
  /\ ClockMsg(12) \in ErrorMsgs(out.frames)
  /\ ErrorMsgs(out.frames) \cap OddMsgs("MISO") = {}
  /\ CountFrames(out.frames, "byte_ok", "MISO") = 1

IsData(f) == f.type \in {"byte_ok", "nibble_ok"}

CountData(fs) == Cardinality({i \in 1..Len(fs) : IsData(fs[i])})

\* C6: in every list returned for a disable frame, every error frame comes
\* before every byte_ok and nibble_ok frame.
C6_ErrorsBeforeData ==
  out.kind = "list" =>
    \A i, j \in 1..Len(out.frames) :
      (out.frames[i].type = "error" /\ IsData(out.frames[j])) => i < j

EnableMarker(f) ==
  AnalyzerFrame("packet", T(f.start_time, 1), T(f.end_time, 1), [dir |-> "CS", info |-> "enable"])

DisableMarker(f) ==
  AnalyzerFrame("packet", T(f.start_time, 1), T(f.end_time, 1), [dir |-> "CS", info |-> "disable"])

\* C7: an enable frame returns exactly the 'enable' packet marker with the
\* frame's own span; a result frame returns nothing; a disable frame
\* returns a list whose last element is the 'disable' packet marker with the
\* frame's own span, the only packet frame of the list.
C7_OutputProtocol ==
  /\ frame.type = "enable" => out = [kind |-> "frame", frame |-> EnableMarker(frame)]
  /\ frame.type = "result" => out = ReturnNone
  /\ frame.type = "disable" =>
       /\ out.kind = "list"
       /\ Len(out.frames) >= 1
       /\ out.frames[Len(out.frames)] = DisableMarker(frame)
       /\ \A i \in 1..(Len(out.frames) - 1) : out.frames[i].type # "packet"

\* C8: every decode call completes and returns: none raises.
C8_NeverAborts == out.kind # "raise"

Masked(rx) == [i \in 1..Len(rx) |-> <<rx[i][1] % 16, rx[i][2], rx[i][3]>>]

DataAndErrors(fs) == SelectSeq(fs, LAMBDA f : f.type \in {"error", "byte_ok", "nibble_ok"})

\* C9: after every disable frame the decoder is inactive with both nibble
\* lists empty; whenever it is inactive both lists are empty; and the error
\* and data frames a disable frame returns are those of a flush of the
\* values received since the previous disable frame, and of nothing else.
C9_FlushResetsAccumulator ==
  /\ [](frame.type = "disable" =>
          ~cs_active /\ mosi_nibbles = <<>> /\ miso_nibbles = <<>>)
  /\ [](~cs_active => mosi_nibbles = <<>> /\ miso_nibbles = <<>>)
  /\ [][ frame'.type = "disable" =>
           DataAndErrors(ReturnedFrames(out')) =
             flush_cs(frame'.end_time, cs_start, Masked(rx_mosi), Masked(rx_miso),
                      stats, FALSE).frames ]_vars

\* A flush that returned data after an earlier cycle had already been
\* flushed with data.
C9_Witness ==
  /\ frame.type = "disable" /\ out.kind = "list"
  /\ ~cs_active
  /\ CountData(out.frames) >= 1
  /\ stats.Packets.total > CountData(out.frames)

ExpectedMsgs(nm, ni) ==
  LET e == Max(nm, ni)
  IN (IF e = 0 THEN {"Less than 4 clocks"}
      ELSE IF 4 * e # 4 /\ (4 * e) % 8 # 0 THEN {ClockMsg(4 * e)} ELSE {})
     \cup (IF nm > 1 /\ nm % 2 = 1 THEN {OddMsg("MOSI", nm)} ELSE {})
     \cup (IF ni > 1 /\ ni % 2 = 1 THEN {OddMsg("MISO", ni)} ELSE {})

NotStats(fs) == SelectSeq(fs, LAMBDA f : f.type # "stats")

\* C10: a result frame received while inactive returns nothing, makes the
\* decoder active with cs_start the frame's start time and appends its
\* masked values under the frame's span; as long as no enable frame follows,
\* cs_start stays the start time of that first result frame; and the next
\* disable frame returns a list whose error frames are only those the
\* nibble counts call for and whose i-th item begins at
\* cs_start + i * (end_time - cs_start) / (total + 2), cs_start being that
\* result frame's start time and end_time the disable frame's end time.
C10_ResultOpensCycle ==
  /\ [][ (frame'.type = "result" /\ ~cs_active) =>
           /\ cs_active'
           /\ cs_start' = frame'.start_time
           /\ out' = ReturnNone
           /\ mosi_nibbles' = Masked(Received(frame'.data.mosi, frame'.start_time, frame'.end_time))
           /\ miso_nibbles' = Masked(Received(frame'.data.miso, frame'.start_time, frame'.end_time))
           /\ stats' = stats ]_vars
  /\ []((cs_active /\ ~enable_seen) =>
          first_frame.type = "result" /\ cs_start = first_frame.start_time)
  /\ [][ (frame'.type = "disable" /\ cs_active /\ ~enable_seen) =>
           /\ out'.kind = "list"
           /\ ErrorMsgs(out'.frames) = ExpectedMsgs(Len(mosi_nibbles), Len(miso_nibbles))
           /\ LET fs == NotStats(Flushed(out'))
                  s == first_frame.start_time
                  total == Len(fs)
              IN \A i \in 1..total :
                   TEq(fs[i].start_time,
                       T(s * (total + 2) + i * (frame'.end_time - s), total + 2)) ]_vars

\* A result frame has just opened a cycle and stored a value.
C10_Witness ==
  /\ frame.type = "result" /\ first_frame.type = "result" /\ ~enable_seen
  /\ cs_active /\ cs_start = frame.start_time
  /\ Len(mosi_nibbles) + Len(miso_nibbles) >= 1
  /\ first_frame.start_time = frame.start_time

\* C11: the whole list returned for a disable frame, the final 'disable'
\* marker included, has strictly increasing begin times: the marker begins
\* (at the disable frame's start time) later than every frame before it.
C11_MarkerBeginsLast ==
  out.kind = "list" =>
    \A i \in 1..(Len(out.frames) - 1) :
      TLt(out.frames[i].start_time, out.frames[Len(out.frames)].start_time)

\* Two spans [b1, e1) and [b2, e2) overlap.
Overlap(b1, e1, b2, e2) == TLt(b1, e2) /\ TLt(b2, e1)

\* C12: no error, data or stats frame of the list returned for a disable
\* frame overlaps the span of the 'disable' marker (the disable frame's
\* span) or the span of the cycle's 'enable' marker (the enable frame's
\* span).
C12_ClearOfMarkers ==
  [][ (frame'.type = "disable" /\ out'.kind = "list") =>
        \A i \in 1..Len(Flushed(out')) :
          LET f == out'.frames[i]
          IN /\ ~Overlap(f.start_time, f.end_time,
                         T(frame'.start_time, 1), T(frame'.end_time, 1))
             /\ last_enable # NoFrame =>
                  ~Overlap(f.start_time, f.end_time,
                           T(last_enable.start_time, 1), T(last_enable.end_time, 1)) ]_vars

IsStats(f, info) == f.type = "stats" /\ f.data.info = info

HasStats(fs) == \E i \in 1..Len(fs) : fs[i].type = "stats"

\* C13: with the statistics option on, the list returned for a disable
\* frame that ends a cycle with at least one nibble holds exactly two stats
\* frames, the 'packets' one and then the 'errors' one, behind every error
\* and data frame and right before the disable marker; with the option off
\* no decode call ever returns a stats frame.
C13_TwoStatsFrames ==
  /\ [][ (frame'.type = "disable" /\ emit_stats_choice
           /\ (mosi_nibbles # <<>> \/ miso_nibbles # <<>>)) =>
           /\ out'.kind = "list"
           /\ LET fs == out'.frames
                  n == Len(fs)
              IN /\ n >= 4
                 /\ fs[n].type = "packet"
                 /\ IsStats(fs[n - 1], "errors")
                 /\ IsStats(fs[n - 2], "packets")
                 /\ \A i \in 1..(n - 3) : fs[i].type \in {"error", "byte_ok", "nibble_ok"} ]_vars
  /\ [](~emit_stats_choice =>
          /\ ~HasStats(ReturnedFrames(out))
          /\ out.kind = "frame" => out.frame.type # "stats")

\* A flush with the option on returned data frames and the stats frames.
C13_Witness ==
  /\ frame.type = "disable" /\ out.kind = "list" /\ emit_stats_choice
  /\ CountData(out.frames) >= 2
  /\ HasStats(out.frames)

\* The time cs_start + step * (total + tenths/10), with
\* step = (end_time - cs_start) / (total + 2).
SlotTime(start, end_time, total, tenths) ==
  T(start * 10 * (total + 2) + (end_time - start) * (10 * total + tenths), 10 * (total + 2))

\* The stats frames of a list span [a, b] (packets) and [c, d] (errors), in
\* tenths of a step after the slot of the last item.
StatsSpans(fs, start, end_time, a, b, c, d) ==
  LET total == Len(NotStats(Flushed([frames |-> fs])))
  IN \A i \in 1..Len(fs) :
       /\ IsStats(fs[i], "packets") =>
            /\ TEq(fs[i].start_time, SlotTime(start, end_time, total, a))
            /\ TEq(fs[i].end_time, SlotTime(start, end_time, total, b))
       /\ IsStats(fs[i], "errors") =>
            /\ TEq(fs[i].start_time, SlotTime(start, end_time, total, c))
            /\ TEq(fs[i].end_time, SlotTime(start, end_time, total, d))

\* C14 as stated: the 'packets' frame spans
\* [cs_start + step*(total+1.3), cs_start + step*(total+1.6)] and the
\* 'errors' frame [cs_start + step*(total+1.6), cs_start + step*(total+1.9)].
C14_StatsInNextSlot ==
  [][ (frame'.type = "disable" /\ out'.kind = "list") =>
        StatsSpans(out'.frames, cs_start, frame'.end_time, 13, 16, 16, 19) ]_vars

\* C14 amended: the stats frames start where the last item ends: the
\* 'packets' frame spans
\* [cs_start + step*(total+0.9), cs_start + step*(total+1.2)] and the
\* 'errors' frame [cs_start + step*(total+1.5), cs_start + step*(total+1.8)].
C14_StatsAfterLastItem ==
  [][ (frame'.type = "disable" /\ out'.kind = "list") =>
        /\ emit_stats_choice => HasStats(out'.frames)
        /\ StatsSpans(out'.frames, cs_start, frame'.end_time, 9, 12, 15, 18) ]_vars

\* A flush of several items returned both stats frames.
C14_Witness ==
  /\ frame.type = "disable" /\ out.kind = "list"
  /\ Len(out.frames) >= 5
  /\ \E i \in 1..Len(out.frames) : IsStats(out.frames[i], "packets")
  /\ \E i \in 1..Len(out.frames) : IsStats(out.frames[i], "errors")

CounterNames ==
  {<<"Packets", k>> : k \in {"total", "p4bit", "p8bit"}}
    \cup {<<"Errors", k>> : k \in {"total", "lt4", "notmul8", "mosi_odd", "miso_odd"}}

\* C15: in every state 'Total packets', '4bit packets' and '8bit packets'
\* equal the numbers of data, nibble_ok and byte_ok frames returned since
\* construction, 'Total errors' the number of error frames returned and
\* each error category counter the number of error frames of its
\* diagnostic; and no step decreases a counter.
C15_CountersMatchEmitted ==
  /\ [](stats = emitted)
  /\ [][ \A c \in CounterNames : stats'[c[1]][c[2]] >= stats[c[1]][c[2]] ]_vars

\* C16: a frame that is neither 'enable', 'disable' nor 'result' returns
\* nothing and leaves cs_active, cs_start, both nibble lists and the
\* statistics as they were, whatever the state.
C16_OtherFramesIgnored ==
  [][ frame'.type \notin {"enable", "disable", "result"} =>
        /\ out' = ReturnNone
        /\ UNCHANGED <<cs_active, cs_start, mosi_nibbles, miso_nibbles, stats>> ]_vars

\* A frame of another type arrived during a cycle that holds nibbles.
C16_Witness ==
  /\ frame.type \in OtherTypes
  /\ cs_active /\ mosi_nibbles # <<>> /\ miso_nibbles # <<>>
  /\ out = ReturnNone

\* The values a hexadecimal text "0xH" or "0xHH" denotes.
HexValues(text) ==
  {v \in 0..255 :
     \/ v < 16 /\ text = "0x" \o HexDigit[v + 1]
     \/ text = "0x" \o HexDigit[(v \div 16) + 1] \o HexDigit[(v % 16) + 1]}

\* C17: every stored nibble is the received value mod 16, under the span of
\* its frame, so every stored value is in 0..15; every nibble_ok frame
\* shows a value in 0..15 and every byte_ok frame a value in 0..255 that is
\* 16 * a + b for two neighbouring stored nibbles a, b of its direction.
C17_ValuesMasked ==
  /\ [](mosi_nibbles = Masked(rx_mosi) /\ miso_nibbles = Masked(rx_miso))
  /\ [](\A d \in Dirs : \A i \in 1..Len(NibblesOf(d)) : NibblesOf(d)[i][1] \in 0..15)
  /\ [][ (frame'.type = "disable" /\ out'.kind = "list") =>
           \A i \in 1..Len(out'.frames) :
             LET f == out'.frames[i]
             IN /\ f.type = "nibble_ok" =>
                     \E v \in 0..15 : HexValues(f.data.val) = {v}
                /\ f.type = "byte_ok" =>
                     LET S == NibblesOf(f.data.dir)
                     IN \E k \in 1..(Len(S) - 1) :
                          HexValues(f.data.val) = {16 * S[k][1] + S[k + 1][1]} ]_vars

\* Values outside 0..15 (26 and -13) are stored as 10 and 3.
C17_Witness ==
  /\ \E i \in 1..Len(rx_mosi) : rx_mosi[i][1] = 26 /\ mosi_nibbles[i][1] = 10
  /\ \E i \in 1..Len(rx_mosi) : rx_mosi[i][1] = -13 /\ mosi_nibbles[i][1] = 3

DataOf(fs, d) == SelectSeq(fs, LAMBDA f : IsData(f) /\ f.data.dir = d)

\* The nibbles the data frames fs show: a byte_ok frame its high and then
\* its low nibble, a nibble_ok frame its value.
RECURSIVE Expand(_)
Expand(fs) ==
  IF fs = <<>> THEN <<>>
  ELSE LET f == Head(fs)
           v == CHOOSE x \in HexValues(f.data.val) : TRUE
       IN (IF f.type = "byte_ok" THEN <<v \div 16, v % 16>> ELSE <<v>>) \o Expand(Tail(fs))

\* C18: for each direction, the data frames returned for a disable frame,
\* expanded in list order, give exactly the values received on that
\* direction since the previous disable frame, each mod 16 and in arrival
\* order, also when an enable frame arrived during the cycle.
C18_SampleConservation ==
  [][ frame'.type = "disable" =>
        \A d \in Dirs :
          LET rx == IF d = "MOSI" THEN rx_mosi ELSE rx_miso
          IN Expand(DataOf(ReturnedFrames(out'), d)) = [i \in 1..Len(rx) |-> rx[i][1] % 16] ]_vars

\* A flush of a cycle during which an enable frame arrived (its data frames
\* come before its error frames) returned the byte 0xA3 and a nibble.
C18_Witness ==
  /\ frame.type = "disable" /\ out.kind = "list"
  /\ \E i, j \in 1..Len(out.frames) :
       i < j /\ IsData(out.frames[i]) /\ out.frames[j].type = "error"
  /\ Expand(DataOf(out.frames, "MOSI")) = <<10, 3, 3>>

\* C19: in every state 'Total packets' is the sum of '4bit packets' and
\* '8bit packets', and 'Total errors' the sum of the four category counters.
C19_StatsConsistent ==
  /\ stats.Packets.total = stats.Packets.p4bit + stats.Packets.p8bit
  /\ stats.Errors.total = stats.Errors.lt4 + stats.Errors.notmul8
                            + stats.Errors.mosi_odd + stats.Errors.miso_odd

\* Packets of both kinds and diagnostics of several categories were counted.
C19_Witness ==
  /\ stats.Packets.p4bit >= 1 /\ stats.Packets.p8bit >= 1
  /\ stats.Errors.notmul8 >= 1 /\ stats.Errors.mosi_odd >= 1
  /\ stats.Errors.lt4 >= 1

\* The k-th item (1-based) of a direction's nibbles S, as the frame shows it,
\* and its sort key: the start time of its first nibble.
ItemCount(S) == (Len(S) + 1) \div 2

ItemShown(d, S, k) ==
  IF 2 * k <= Len(S)
    THEN <<d, "byte_ok", FormatByte(16 * S[2 * k - 1][1] + S[2 * k][1])>>
    ELSE <<d, "nibble_ok", FormatNibble(S[2 * k - 1][1])>>

ItemKey(S, k) == S[2 * k - 1][2]

\* The merge of the two directions' items from item i of mo and item j of
\* mi on: the smaller key first, the MOSI item first when the keys are equal.
RECURSIVE MergeByKey(_, _, _, _)
MergeByKey(mo, mi, i, j) ==
  IF i > ItemCount(mo) /\ j > ItemCount(mi) THEN <<>>
  ELSE IF j > ItemCount(mi) \/ (i <= ItemCount(mo) /\ ItemKey(mo, i) <= ItemKey(mi, j))
    THEN <<[shown |-> ItemShown("MOSI", mo, i), key |-> ItemKey(mo, i)]>>
           \o MergeByKey(mo, mi, i + 1, j)
    ELSE <<[shown |-> ItemShown("MISO", mi, j), key |-> ItemKey(mi, j)]>>
           \o MergeByKey(mo, mi, i, j + 1)

\* C20: the data frames of the list returned for a disable frame are the
\* items of both directions merged in order of non-decreasing sort key,
\* a MOSI item before a MISO item of the same key, each direction's items
\* in pairing order.
C20_DataMergedByKey ==
  [][ (frame'.type = "disable" /\ out'.kind = "list") =>
        LET merged == MergeByKey(mosi_nibbles, miso_nibbles, 1, 1)
            shown == SelectSeq(out'.frames, IsData)
        IN /\ Len(shown) = Len(merged)
           /\ \A p \in 1..Len(merged) :
                <<shown[p].data.dir, shown[p].type, shown[p].data.val>> = merged[p].shown
           /\ \A p \in 1..(Len(merged) - 1) : merged[p].key <= merged[p + 1].key ]_vars

\* A flush returned a MOSI byte, then a MISO byte, then a MOSI nibble.
C20_Witness ==
  /\ frame.type = "disable" /\ out.kind = "list"
  /\ \E i \in 1..(Len(out.frames) - 2) :
       /\ IsKindOf(out.frames[i], "byte_ok", "MOSI")
       /\ IsKindOf(out.frames[i + 1], "byte_ok", "MISO")
       /\ IsKindOf(out.frames[i + 2], "nibble_ok", "MOSI")

====
